---- MODULE Spec2Model ----
(***************************************************************************)
(* Gong call summary agent: the per-call pipeline of runGongAgent /        *)
(* gongSummaryAgent.prepareCall (sandbox session, directories, context     *)
(* files, composed instructions, tool loop, structured output) and the     *)
(* configuration status page.                                              *)
(*                                                                         *)
(* Text is modelled as a sequence of tokens; the line break is the token   *)
(* NL.  An optional field is a record [some, val]; JavaScript's `a || b`   *)
(* takes b when a is undefined, the empty string or the number 0.          *)
(***************************************************************************)
EXTENDS Integers, Sequences, FiniteSets, TLC

\* ------------------------------------------------------------------ bounds
NumCalls == 2
MaxParties == 2
MaxExec == 1

Calls == 1..NumCalls

\* ------------------------------------------------------------ text helpers
NL == "\n"
\* the token of a code-fence line (three backquotes) of the template
Fence == "[fence]"

Absent == [some |-> FALSE, val |-> <<>>]
Some(v) == [some |-> TRUE, val |-> v]
AbsentNum == [some |-> FALSE, val |-> 0]

\* JS truthiness of an optional string / of an optional number
Truthy(o) == o.some /\ o.val # <<>>
TruthyNum(o) == o.some /\ o.val # 0

\* `a || fallback` for an optional string a
OrElse(o, fallback) == IF Truthy(o) THEN o.val ELSE fallback

RECURSIVE Join(_, _)
\* Array.prototype.join: the texts of `parts` separated by the token sep
Join(parts, sep) ==
  IF parts = <<>> THEN <<>>
  ELSE IF Len(parts) = 1 THEN parts[1]
  ELSE parts[1] \o <<sep>> \o Join(Tail(parts), sep)

RECURSIVE SplitAcc(_, _, _)
SplitAcc(text, sep, cur) ==
  IF text = <<>> THEN <<cur>>
  ELSE IF Head(text) = sep THEN <<cur>> \o SplitAcc(Tail(text), sep, <<>>)
  ELSE SplitAcc(Tail(text), sep, Append(cur, Head(text)))

\* the lines of a text (a text with n separators has n + 1 lines)
Lines(text) == SplitAcc(text, NL, <<>>)

Digit(d) == <<"0", "1", "2", "3", "4", "5", "6", "7", "8", "9">>[d + 1]

RECURSIVE NatToText(_)
NatToText(n) == IF n < 10 THEN <<Digit(n)>> ELSE NatToText(n \div 10) \o <<Digit(n % 10)>>

\* Number-to-string conversion of an integer inside a string concatenation
NumToText(n) == IF n < 0 THEN <<"-">> \o NatToText(-n) ELSE NatToText(n)

\* faulty variant: the minutes truncated instead of rounded
MathRoundDiv60Floor(seconds) == seconds \div 60
\* Math.round(seconds / 60) on an integer: floor(seconds / 60 + 1/2)
MathRoundDiv60(seconds) == (seconds + 30) \div 60

\* ------------------------------------------------------ prompt composition
Unknown == <<"Unknown">>

RenderTitle(meta) == OrElse(meta.title, <<"Untitled Call">>)

RenderDate(meta) ==
  IF Truthy(meta.scheduled) THEN meta.scheduled.val
  ELSE OrElse(meta.started, Unknown)

RenderDuration(meta) ==
  IF TruthyNum(meta.duration)
  THEN NumToText(MathRoundDiv60(meta.duration.val)) \o <<" minutes">>
  ELSE Unknown

RenderSystem(meta) == OrElse(meta.system, Unknown)

\* `parties || []`
PartiesOrEmpty(parties) == IF parties.some THEN parties.val ELSE <<>>

\* faulty variant: the name interpolated without its fallback
PartyLineRawName(p) ==
  <<"- ">> \o p.name.val \o <<" (">> \o OrElse(p.affiliation, Unknown) \o <<")">>
    \o (IF Truthy(p.title) THEN <<" - ">> \o p.title.val ELSE <<>>)
\* one element of parties.map(...)
PartyLine(p) ==
  <<"- ">> \o OrElse(p.name, Unknown) \o <<" (">> \o OrElse(p.affiliation, Unknown) \o <<")">>
    \o (IF Truthy(p.title) THEN <<" - ">> \o p.title.val ELSE <<>>)

ParticipantsText(parties) ==
  Join([i \in 1..Len(PartiesOrEmpty(parties)) |-> PartyLine(PartiesOrEmpty(parties)[i])], NL)

\* the template literal of prepareCall
Instructions(systemPrompt, companyName, meta, parties, fileTree, now) ==
  systemPrompt \o <<NL, NL, "## Call Context", NL, NL>>
    \o <<"**Call:** ">> \o RenderTitle(meta) \o <<NL>>
    \o <<"**Date:** ">> \o RenderDate(meta) \o <<NL>>
    \o <<"**Duration:** ">> \o RenderDuration(meta) \o <<NL>>
    \o <<"**System:** ">> \o RenderSystem(meta) \o <<NL, NL>>
    \o <<"**Participants:**", NL>> \o ParticipantsText(parties) \o <<NL, NL>>
    \o <<"## Filesystem Structure", NL, Fence, NL>> \o fileTree \o <<NL, Fence, NL, NL>>
    \o <<"## Instructions", NL, NL>>
    \o <<"1. First, explore the call transcript using the executeCommand tool", NL>>
    \o <<"2. Search for key topics, objections, and action items", NL>>
    \o <<"3. Analyze how objections were handled", NL>>
    \o <<"4. Generate a comprehensive summary", NL, NL>>
    \o <<"## Metadata", NL>>
    \o <<"- Current date: ", now, NL>>
    \o <<"- Company: ">> \o companyName

\* ----------------------------------------------------------------- inputs
OptTexts(vals) == {Absent, Some(<<>>)} \cup {Some(<<v>>) : v \in vals}

Durations == {AbsentNum} \cup {[some |-> TRUE, val |-> d] : d \in {0, 29, 30, 90, 3600, -90}}

DefaultMeta ==
  [title |-> Some(<<"QBR">>), scheduled |-> Absent, started |-> Some(<<"2026-01-05">>),
   duration |-> [some |-> TRUE, val |-> 1800], system |-> Some(<<"Zoom">>)]

Metas ==
  [title : OptTexts({"QBR"}), scheduled : OptTexts({"2026-01-04"}),
   started : OptTexts({"2026-01-05"}), duration : Durations, system : OptTexts({"Zoom"})]

Parties ==
  [name : OptTexts({"Ann", "Bob"}), affiliation : OptTexts({"Acme"}), title : OptTexts({"CTO"})]

PartyLists == UNION {[1..n -> Parties] : n \in 0..MaxParties}

OptPartyLists == {[some |-> FALSE, val |-> <<>>]} \cup {[some |-> TRUE, val |-> l] : l \in PartyLists}

DefaultParties ==
  [some |-> TRUE,
   val |-> <<[name |-> Some(<<"Ann">>), affiliation |-> Absent, title |-> Some(<<"CTO">>)]>>]

\* the payloads of the concurrent specification: one with a transcript and a
\* CRM account id, one with neither
SmallInputs ==
  {[meta |-> DefaultMeta, parties |-> DefaultParties, transcript |-> TRUE,
    sfdcAccountId |-> Some(<<"001A">>)],
   [meta |-> DefaultMeta, parties |-> DefaultParties, transcript |-> FALSE,
    sfdcAccountId |-> Absent]}

\* the payloads of the composition specification: every combination of
\* call-level fields, and every participant list up to MaxParties
WideInputs ==
  {[meta |-> m, parties |-> DefaultParties, transcript |-> TRUE, sfdcAccountId |-> Absent] :
     m \in Metas}
  \cup
  {[meta |-> DefaultMeta, parties |-> ps, transcript |-> TRUE, sfdcAccountId |-> Absent] :
     ps \in OptPartyLists}

NoInput ==
  [meta |-> DefaultMeta, parties |-> [some |-> FALSE, val |-> <<>>], transcript |-> FALSE,
   sfdcAccountId |-> Absent]

\* the values `new Date().toISOString()` takes
Timestamps == {"2026-11-03T10:00:00.000Z"}

\* ------------------------------------------------------------------ state
VARIABLES
  config,        \* the immutable configuration loaded at startup
  pc,            \* each call's position
  inbox,         \* each call's webhook payload and optional CRM account id
  sandbox,       \* prepareCall's local `sandbox` (a session id, 0 before creation)
  files,         \* prepareCall's local `files`
  prepared,      \* what prepareCall returned: instructions, tools, output schema
  sessions,      \* the remote sandbox platform: every session created, with its operations
  generateCount, \* agent invocations (generate requests) issued per call
  createCount,   \* Sandbox.create requests issued per call
  log,           \* the steps each call has completed or failed, in order
  modelOutput,   \* the final output the model emitted for the call
  result,        \* the outcome of runGongAgent for the call
  page           \* the last rendering of the status page

vars ==
  <<config, pc, inbox, sandbox, files, prepared, sessions, generateCount, createCount, log,
    modelOutput, result, page>>

NoResult == [kind |-> "none", val |-> "none"]
NotPrepared == [instructions |-> <<>>, tools |-> 0, output |-> FALSE]
NoPage == [rendered |-> FALSE, status |-> <<>>]

\* the required settings named by the status page's quick start
RequiredEnv == <<"GONG_ACCESS_KEY", "ANTHROPIC_API_KEY">>

Configs ==
  [missing : {<<>>, <<"GONG_ACCESS_KEY">>, RequiredEnv},
   salesforceEnabled : BOOLEAN,
   systemPrompt : {<<"You are a sales call analyst.">>},
   companyName : {<<"Acme Corp">>}]

\* validateConfig(): one error per missing required setting
ValidateConfig(cfg) ==
  [valid |-> cfg.missing = <<>>,
   errors |-> [i \in 1..Len(cfg.missing) |-> <<cfg.missing[i], " is required">>]]

InitWith(cfg, in, at) ==
  /\ config = cfg
  /\ pc = at
  /\ inbox = in
  /\ sandbox = [c \in Calls |-> 0]
  /\ files = [c \in Calls |-> <<>>]
  /\ prepared = [c \in Calls |-> NotPrepared]
  /\ sessions = <<>>
  /\ generateCount = [c \in Calls |-> 0]
  /\ createCount = [c \in Calls |-> 0]
  /\ log = [c \in Calls |-> <<>>]
  /\ modelOutput = [c \in Calls |-> "none"]
  /\ result = [c \in Calls |-> NoResult]
  /\ page = NoPage

Init ==
  \E cfg \in Configs :
    InitWith(cfg, [c \in Calls |-> NoInput], [c \in Calls |-> "idle"])

\* ------------------------------------------------------- webhook receiver
\* A payload arrives; configuration errors are rejected at the boundary.
Receive(c) ==
  /\ pc[c] = "idle"
  /\ \E in \in SmallInputs : inbox' = [inbox EXCEPT ![c] = in]
  /\ pc' = [pc EXCEPT ![c] = IF ValidateConfig(config).valid THEN "received" ELSE "rejected"]
  /\ UNCHANGED <<config, sandbox, files, prepared, sessions, generateCount, createCount, log,
                 modelOutput, result, page>>

\* ------------------------------------------------------------ runGongAgent
\* runGongAgent calls gongSummaryAgent.generate, which calls prepareCall,
\* which issues Sandbox.create and awaits it.
RunGongAgent(c) ==
  /\ pc[c] = "received"
  /\ generateCount' = [generateCount EXCEPT ![c] = @ + 1]
  /\ createCount' = [createCount EXCEPT ![c] = @ + 1]
  /\ pc' = [pc EXCEPT ![c] = "create"]
  /\ UNCHANGED <<config, inbox, sandbox, files, prepared, sessions, log, modelOutput, result,
                 page>>

\* faulty variant: the rejection caught and the invocation started again
ThrowRetry(c, step) ==
  /\ pc' = [pc EXCEPT ![c] = "received"]
  /\ log' = [log EXCEPT ![c] = Append(@, [step |-> step, ok |-> FALSE])]
  /\ UNCHANGED result
\* an awaited remote step rejects: nothing catches it, so prepareCall,
\* generate and runGongAgent reject with the same error
Throw(c, step) ==
  /\ pc' = [pc EXCEPT ![c] = "failed"]
  /\ log' = [log EXCEPT ![c] = Append(@, [step |-> step, ok |-> FALSE])]
  /\ result' = [result EXCEPT ![c] = [kind |-> "error", val |-> step]]

\* a step completed
Advance(c, step, next) ==
  /\ pc' = [pc EXCEPT ![c] = next]
  /\ log' = [log EXCEPT ![c] = Append(@, [step |-> step, ok |-> TRUE])]
  /\ UNCHANGED result

\* faulty variant: the session kept in one module-level variable, overwritten
\* by each create
SandboxOfShared(c) == Len(sessions)
\* the session a step of call c operates on: prepareCall's local `sandbox`
SandboxOf(c) == sandbox[c]

\* a remote operation on session s, recorded with the call that issued it
RemoteOp(s, c, op, arg) ==
  sessions' = [sessions EXCEPT ![s].ops = Append(@, [by |-> c, op |-> op, arg |-> arg])]

SandboxCreate(c) ==
  /\ pc[c] = "create"
  /\ sessions' = Append(sessions, [owner |-> c, ops |-> <<>>])
  /\ sandbox' = [sandbox EXCEPT ![c] = Len(sessions) + 1]
  /\ Advance(c, "Sandbox.create", "mkdirGong")
  /\ UNCHANGED <<config, inbox, files, prepared, generateCount, createCount, modelOutput, page>>

SandboxCreateFails(c) ==
  /\ pc[c] = "create"
  /\ Throw(c, "Sandbox.create")
  /\ UNCHANGED <<config, inbox, sandbox, files, prepared, sessions, generateCount, createCount,
                 modelOutput, page>>

MkDirGongCalls(c) ==
  /\ pc[c] = "mkdirGong"
  /\ RemoteOp(SandboxOf(c), c, "mkDir", <<"gong-calls">>)
  /\ Advance(c, "mkDir gong-calls", "mkdirSf")
  /\ UNCHANGED <<config, inbox, sandbox, files, prepared, generateCount, createCount,
                 modelOutput, page>>

MkDirGongCallsFails(c) ==
  /\ pc[c] = "mkdirGong"
  /\ Throw(c, "mkDir gong-calls")
  /\ UNCHANGED <<config, inbox, sandbox, files, prepared, sessions, generateCount, createCount,
                 modelOutput, page>>

\* faulty variant: the directory created whatever the configuration says
MkDirSalesforceAlways(c) ==
  /\ pc[c] = "mkdirSf"
  /\ RemoteOp(SandboxOf(c), c, "mkDir", <<"salesforce">>)
  /\ Advance(c, "mkDir salesforce", "generate")
  /\ UNCHANGED <<config, inbox, sandbox, files, prepared, generateCount, createCount,
                 modelOutput, page>>
\* `if (config.salesforce.enabled) await sandbox.mkDir('salesforce')`
MkDirSalesforce(c) ==
  /\ pc[c] = "mkdirSf"
  /\ config.salesforceEnabled
  /\ RemoteOp(SandboxOf(c), c, "mkDir", <<"salesforce">>)
  /\ Advance(c, "mkDir salesforce", "generate")
  /\ UNCHANGED <<config, inbox, sandbox, files, prepared, generateCount, createCount,
                 modelOutput, page>>

MkDirSalesforceFails(c) ==
  /\ pc[c] = "mkdirSf"
  /\ config.salesforceEnabled
  /\ Throw(c, "mkDir salesforce")
  /\ UNCHANGED <<config, inbox, sandbox, files, prepared, sessions, generateCount, createCount,
                 modelOutput, page>>

SkipSalesforce(c) ==
  /\ pc[c] = "mkdirSf"
  /\ ~config.salesforceEnabled
  /\ pc' = [pc EXCEPT ![c] = "generate"]
  /\ UNCHANGED <<config, inbox, sandbox, files, prepared, sessions, generateCount, createCount,
                 log, modelOutput, result, page>>

\* generateFilesForSandbox: the ordered context files of the call.  The call
\* files exist when the payload carries a transcript; the CRM record dump
\* only when the CRM integration is enabled and an account id is supplied.
GenerateFilesForSandbox(cfg, in) ==
  (IF in.transcript
   THEN <<[path |-> "gong-calls/transcript.md", content |-> "transcript"],
          [path |-> "gong-calls/metadata.json", content |-> "metadata"]>>
   ELSE <<>>)
  \o
  (IF cfg.salesforceEnabled /\ Truthy(in.sfdcAccountId)
   THEN <<[path |-> "salesforce/account.json", content |-> "account"]>>
   ELSE <<>>)

\* generateFileTree: one line per file path, in list order
GenerateFileTree(fs) == Join([i \in 1..Len(fs) |-> <<fs[i].path>>], NL)

GenerateFiles(c) ==
  /\ pc[c] = "generate"
  /\ files' = [files EXCEPT ![c] = GenerateFilesForSandbox(config, inbox[c])]
  /\ Advance(c, "generateFilesForSandbox", "write")
  /\ UNCHANGED <<config, inbox, sandbox, prepared, sessions, generateCount, createCount,
                 modelOutput, page>>

\* faulty variant: writeFiles not awaited, the write not yet done when
\* prepareCall goes on
WriteFilesNotAwaited(c) ==
  /\ pc[c] = "write"
  /\ Len(files[c]) > 0
  /\ Advance(c, "writeFiles", "compose")
  /\ UNCHANGED <<config, inbox, sandbox, files, prepared, sessions, generateCount, createCount,
                 modelOutput, page>>
\* faulty variant: writeFiles called without the length test
WriteFilesEvenIfEmpty(c) ==
  /\ pc[c] = "write"
  /\ RemoteOp(SandboxOf(c), c, "writeFiles", files[c])
  /\ Advance(c, "writeFiles", "compose")
  /\ UNCHANGED <<config, inbox, sandbox, files, prepared, generateCount, createCount,
                 modelOutput, page>>
\* `if (files.length > 0) await sandbox.writeFiles(files)`
WriteFiles(c) ==
  /\ pc[c] = "write"
  /\ Len(files[c]) > 0
  /\ RemoteOp(SandboxOf(c), c, "writeFiles", files[c])
  /\ Advance(c, "writeFiles", "compose")
  /\ UNCHANGED <<config, inbox, sandbox, files, prepared, generateCount, createCount,
                 modelOutput, page>>

\* faulty variant: the rejection of writeFiles caught and ignored
WriteFilesFailsSwallowed(c) ==
  /\ pc[c] = "write"
  /\ Len(files[c]) > 0
  /\ pc' = [pc EXCEPT ![c] = "compose"]
  /\ log' = [log EXCEPT ![c] = Append(@, [step |-> "writeFiles", ok |-> FALSE])]
  /\ UNCHANGED <<config, inbox, sandbox, files, prepared, sessions, generateCount, createCount,
                 modelOutput, result, page>>
\* sandbox.writeFiles rejects
WriteFilesFails(c) ==
  /\ pc[c] = "write"
  /\ Len(files[c]) > 0
  /\ Throw(c, "writeFiles")
  /\ UNCHANGED <<config, inbox, sandbox, files, prepared, sessions, generateCount, createCount,
                 modelOutput, page>>

SkipWriteFiles(c) ==
  /\ pc[c] = "write"
  /\ Len(files[c]) = 0
  /\ pc' = [pc EXCEPT ![c] = "compose"]
  /\ UNCHANGED <<config, inbox, sandbox, files, prepared, sessions, generateCount, createCount,
                 log, modelOutput, result, page>>

\* createAgentTools(sandbox): the tools execute against the session given
CreateAgentTools(s) == s

\* faulty variant: no output schema in the returned settings
ComposeWithoutSchema(c) ==
  /\ pc[c] = "compose"
  /\ \E now \in Timestamps :
       prepared' = [prepared EXCEPT ![c] =
         [instructions |->
            Instructions(config.systemPrompt, config.companyName, inbox[c].meta,
                         inbox[c].parties, GenerateFileTree(files[c]), now),
          tools |-> CreateAgentTools(SandboxOf(c)),
          output |-> FALSE]]
  /\ pc' = [pc EXCEPT ![c] = "loop"]
  /\ log' = [log EXCEPT ![c] = @ \o <<[step |-> "generateFileTree", ok |-> TRUE],
                                      [step |-> "instructions", ok |-> TRUE],
                                      [step |-> "createAgentTools", ok |-> TRUE]>>]
  /\ UNCHANGED <<config, inbox, sandbox, files, sessions, generateCount, createCount,
                 modelOutput, result, page>>
\* the rest of prepareCall, which runs without suspension: the file tree, the
\* instructions, the tools, and the settings returned to the tool loop
Compose(c) ==
  /\ pc[c] = "compose"
  /\ \E now \in Timestamps :
       prepared' = [prepared EXCEPT ![c] =
         [instructions |->
            Instructions(config.systemPrompt, config.companyName, inbox[c].meta,
                         inbox[c].parties, GenerateFileTree(files[c]), now),
          tools |-> CreateAgentTools(SandboxOf(c)),
          output |-> TRUE]]
  /\ pc' = [pc EXCEPT ![c] = "loop"]
  /\ log' = [log EXCEPT ![c] = @ \o <<[step |-> "generateFileTree", ok |-> TRUE],
                                      [step |-> "instructions", ok |-> TRUE],
                                      [step |-> "createAgentTools", ok |-> TRUE]>>]
  /\ UNCHANGED <<config, inbox, sandbox, files, sessions, generateCount, createCount,
                 modelOutput, result, page>>

\* ---------------------------------------------------------------- tool loop
ExecsBy(c) == Cardinality({i \in DOMAIN log[c] : log[c][i].step = "executeCommand"})

\* one tool round trip: the runtime runs a command through the tools it was
\* handed, against the session those tools are bound to
ToolExec(c) ==
  /\ pc[c] = "loop"
  /\ ExecsBy(c) < MaxExec
  /\ RemoteOp(prepared[c].tools, c, "exec", <<>>)
  /\ Advance(c, "executeCommand", "loop")
  /\ UNCHANGED <<config, inbox, sandbox, files, prepared, generateCount, createCount,
                 modelOutput, page>>

\* `return result.output`: the model's final output conforms to the schema
ModelOutputConforming(c) ==
  /\ pc[c] = "loop"
  /\ modelOutput' = [modelOutput EXCEPT ![c] = "conforming"]
  /\ result' = [result EXCEPT ![c] = [kind |-> "summary", val |-> "conforming"]]
  /\ pc' = [pc EXCEPT ![c] = "returned"]
  /\ log' = [log EXCEPT ![c] = Append(@, [step |-> "generate", ok |-> TRUE])]
  /\ UNCHANGED <<config, inbox, sandbox, files, prepared, sessions, generateCount, createCount,
                 page>>

\* the model's final output does not conform: with an output schema in the
\* settings the runtime rejects it; without one the text is returned as is
ModelOutputNonconforming(c) ==
  /\ pc[c] = "loop"
  /\ modelOutput' = [modelOutput EXCEPT ![c] = "nonconforming"]
  /\ IF prepared[c].output
     THEN Throw(c, "schema validation")
     ELSE /\ result' = [result EXCEPT ![c] = [kind |-> "summary", val |-> "nonconforming"]]
          /\ pc' = [pc EXCEPT ![c] = "returned"]
          /\ log' = [log EXCEPT ![c] = Append(@, [step |-> "generate", ok |-> TRUE])]
  /\ UNCHANGED <<config, inbox, sandbox, files, prepared, sessions, generateCount, createCount,
                 page>>

\* the model or tool-loop platform fails or times out
ToolLoopFails(c) ==
  /\ pc[c] = "loop"
  /\ Throw(c, "generate")
  /\ UNCHANGED <<config, inbox, sandbox, files, prepared, sessions, generateCount, createCount,
                 modelOutput, page>>

\* -------------------------------------------------------- result dispatcher
\* the summary returned by runGongAgent is forwarded to the enabled sinks
Dispatch(c) ==
  /\ pc[c] = "returned"
  /\ pc' = [pc EXCEPT ![c] = "dispatched"]
  /\ UNCHANGED <<config, inbox, sandbox, files, prepared, sessions, generateCount, createCount,
                 log, modelOutput, result, page>>

\* -------------------------------------------------------------- status page
\* faulty variant: the two branches of the conditional exchanged
HomePageStatusSwapped(configStatus) ==
  IF configStatus.valid
  THEN <<"[Invalid] - ">> \o Join(configStatus.errors, ", ")
  ELSE <<"[Valid]">>
\* the Configuration line of HomePage
HomePageStatus(configStatus) ==
  IF configStatus.valid
  THEN <<"[Valid]">>
  ELSE <<"[Invalid] - ">> \o Join(configStatus.errors, ", ")

RenderHomePage ==
  /\ page' = [rendered |-> TRUE, status |-> HomePageStatus(ValidateConfig(config))]
  /\ UNCHANGED <<config, pc, inbox, sandbox, files, prepared, sessions, generateCount,
                 createCount, log, modelOutput, result>>

\* ------------------------------------------------------------ specification
\* the steps of one call up to the return of prepareCall
PrepareStep(c) ==
  \/ Receive(c)
  \/ RunGongAgent(c)
  \/ SandboxCreate(c)
  \/ SandboxCreateFails(c)
  \/ MkDirGongCalls(c)
  \/ MkDirGongCallsFails(c)
  \/ MkDirSalesforce(c)
  \/ MkDirSalesforceFails(c)
  \/ SkipSalesforce(c)
  \/ GenerateFiles(c)
  \/ WriteFiles(c)
  \/ WriteFilesFails(c)
  \/ SkipWriteFiles(c)
  \/ Compose(c)

\* the steps of one call
Step(c) ==
  \/ PrepareStep(c)
  \/ ToolExec(c)
  \/ ModelOutputConforming(c)
  \/ ModelOutputNonconforming(c)
  \/ ToolLoopFails(c)
  \/ Dispatch(c)

\* Concurrent calls: every interleaving of the steps of NumCalls calls.
Next == \E c \in Calls : Step(c)

Spec == Init /\ [][Next]_vars

\* The context specification: concurrent calls, each up to the return of
\* prepareCall (session, directories, files, instructions).
NextPrepare == \E c \in Calls : PrepareStep(c)

SpecPrepare == Init /\ [][NextPrepare]_vars

\* The status specification: one call and the status page, under every
\* configuration.
NextStatus == Step(1) \/ RenderHomePage

SpecStatus == Init /\ [][NextStatus]_vars

\* The composition specification: one call, received with any payload of
\* WideInputs, runs prepareCall to the point where the instructions exist.
InitCompose ==
  \E cfg \in Configs, in \in WideInputs :
    /\ cfg.missing = <<>>
    /\ ~cfg.salesforceEnabled
    /\ InitWith(cfg, [c \in Calls |-> IF c = 1 THEN in ELSE NoInput],
                [c \in Calls |-> IF c = 1 THEN "received" ELSE "idle"])

NextCompose ==
  \/ RunGongAgent(1)
  \/ SandboxCreate(1)
  \/ MkDirGongCalls(1)
  \/ SkipSalesforce(1)
  \/ GenerateFiles(1)
  \/ WriteFiles(1)
  \/ Compose(1)

SpecCompose == InitCompose /\ [][NextCompose]_vars

\* --------------------------------------------------- reading the instructions
\* the index of the first line equal to `line`
IndexOfLine(ls, line) == CHOOSE i \in DOMAIN ls : ls[i] = line /\ \A j \in 1..(i - 1) : ls[j] # line

\* the lines between the Participants heading and the blank line that
\* precedes the Filesystem heading
ParticipantSection(instr) ==
  LET ls == Lines(instr)
  IN SubSeq(ls, IndexOfLine(ls, <<"**Participants:**">>) + 1,
            IndexOfLine(ls, <<"## Filesystem Structure">>) - 2)

\* the lines between the two fence lines: the text between the first fence
\* token and the next one, without the line break that ends the opening
\* fence line and the one that precedes the closing fence line
FileTreeSection(instr) ==
  LET open == CHOOSE i \in DOMAIN instr :
                instr[i] = Fence /\ \A j \in 1..(i - 1) : instr[j] # Fence
      close == CHOOSE i \in DOMAIN instr :
                 i > open /\ instr[i] = Fence /\ \A j \in (open + 1)..(i - 1) : instr[j] # Fence
      between == Lines(SubSeq(instr, open + 1, close - 1))
  IN SubSeq(between, 2, Len(between) - 1)

\* the text that follows `label` on the line that starts with it
FieldOf(instr, label) ==
  LET ls == Lines(instr)
      i == CHOOSE k \in DOMAIN ls : ls[k] # <<>> /\ Head(ls[k]) = label
  IN Tail(ls[i])

DigitValue(t) == CHOOSE d \in 0..9 : Digit(d) = t

RECURSIVE TextToNat(_)
TextToNat(t) == IF t = <<>> THEN 0 ELSE 10 * TextToNat(SubSeq(t, 1, Len(t) - 1)) + DigitValue(t[Len(t)])

\* the integer a decimal text denotes
TextToNum(t) == IF Head(t) = "-" THEN 0 - TextToNat(Tail(t)) ELSE TextToNat(t)

\* a field that is undefined or the empty string
Missing(o) == ~o.some \/ o.val = <<>>

Composed(c) == prepared[c] # NotPrepared

C9_CallFieldFallbacks ==
  \A c \in Calls : Composed(c) =>
    LET m == inbox[c].meta
        instr == prepared[c].instructions
        dur == FieldOf(instr, "**Duration:** ")
    IN /\ FieldOf(instr, "**Call:** ") = (IF Missing(m.title) THEN <<"Untitled Call">> ELSE m.title.val)
       /\ FieldOf(instr, "**Date:** ") =
            (IF ~Missing(m.scheduled) THEN m.scheduled.val
             ELSE IF ~Missing(m.started) THEN m.started.val
             ELSE <<"Unknown">>)
       /\ FieldOf(instr, "**System:** ") = (IF Missing(m.system) THEN <<"Unknown">> ELSE m.system.val)
       /\ IF ~m.duration.some \/ m.duration.val = 0
          THEN dur = <<"Unknown">>
          ELSE /\ dur[Len(dur)] = " minutes"
               /\ LET n == TextToNum(SubSeq(dur, 1, Len(dur) - 1))
                  IN 60 * n - 30 <= m.duration.val /\ m.duration.val < 60 * n + 30
       /\ ~inbox[c].parties.some => ParticipantSection(instr) = << <<>> >>

\* a composed call of 90 seconds with no title, no scheduled value and a
\* started value
C9_Witness ==
  \E c \in Calls :
    /\ Composed(c)
    /\ inbox[c].meta.duration = [some |-> TRUE, val |-> 90]
    /\ ~inbox[c].meta.title.some
    /\ ~inbox[c].meta.scheduled.some
    /\ Truthy(inbox[c].meta.started)
    /\ FieldOf(prepared[c].instructions, "**Duration:** ") = <<"2", " minutes">>

\* ------------------------------------------------------- reading the sessions
OpsOf(s) == sessions[s].ops

\* the sessions created by call c
SessionsOf(c) == {s \in DOMAIN sessions : sessions[s].owner = c}

\* the operations of kind op issued on session s
OpsOfKind(s, op) == {i \in DOMAIN OpsOf(s) : OpsOf(s)[i].op = op}

IsCrmPath(path) == path = "salesforce/account.json"

Finished(c) == pc[c] \in {"returned", "dispatched", "failed"}

\* C2: with the Salesforce integration disabled, no session ever gets a
\* 'salesforce' directory or a file under it, and no call's file list holds
\* one, whether or not the payload came with a CRM account id.
C2_NoCrmWhenDisabled ==
  ~config.salesforceEnabled =>
    /\ \A s \in DOMAIN sessions : \A i \in DOMAIN OpsOf(s) :
         /\ ~(OpsOf(s)[i].op = "mkDir" /\ OpsOf(s)[i].arg = <<"salesforce">>)
         /\ OpsOf(s)[i].op = "writeFiles" =>
              \A k \in DOMAIN OpsOf(s)[i].arg : ~IsCrmPath(OpsOf(s)[i].arg[k].path)
    /\ \A c \in Calls : \A k \in DOMAIN files[c] : ~IsCrmPath(files[c][k].path)

\* Salesforce disabled, a CRM account id supplied, and the call has written
\* its files and reached the tool loop
C2_Witness ==
  /\ ~config.salesforceEnabled
  /\ \E c \in Calls :
       /\ Truthy(inbox[c].sfdcAccountId)
       /\ pc[c] = "loop"
       /\ OpsOfKind(sandbox[c], "writeFiles") # {}

\* C3: a call issues at most one generate request and one Sandbox.create
\* request and owns at most one session, and a call that has ended, with a
\* summary or with a failure, issued exactly one generate request.
C3_SingleInvocation ==
  \A c \in Calls :
    /\ generateCount[c] <= 1
    /\ createCount[c] <= 1
    /\ Cardinality(SessionsOf(c)) <= 1
    /\ Finished(c) => generateCount[c] = 1
    /\ Cardinality({i \in DOMAIN log[c] : log[c][i].step = "Sandbox.create"}) <= 1

\* a call that failed after its session was created
C3_Witness ==
  \E c \in Calls : pc[c] = "failed" /\ sandbox[c] # 0 /\ generateCount[c] = 1

\* C4: a step that fails is the last step of its call: the call is failed,
\* its outcome is the error of exactly that step, and nothing that follows
\* the step in prepareCall has happened (no session after a failed create, no
\* file write after a failed mkDir, no tools, instructions or command
\* execution after a failed write); a failed call has no summary.
C4_FailureEndsCall ==
  \A c \in Calls :
    /\ \A i \in DOMAIN log[c] : ~log[c][i].ok =>
         /\ i = Len(log[c])
         /\ pc[c] = "failed"
         /\ result[c] = [kind |-> "error", val |-> log[c][i].step]
    /\ pc[c] = "failed" <=> result[c].kind = "error"
    /\ result[c].kind = "error" =>
         /\ log[c] # <<>> /\ ~log[c][Len(log[c])].ok
         /\ result[c].val = "Sandbox.create" => SessionsOf(c) = {} /\ sandbox[c] = 0
         /\ result[c].val \in {"Sandbox.create", "mkDir gong-calls", "mkDir salesforce"} =>
              files[c] = <<>>
         /\ result[c].val \in {"mkDir gong-calls", "mkDir salesforce", "writeFiles"} =>
              /\ OpsOfKind(sandbox[c], "writeFiles") = {}
              /\ OpsOfKind(sandbox[c], "exec") = {}
         /\ result[c].val \in {"Sandbox.create", "mkDir gong-calls", "mkDir salesforce",
                                "writeFiles"} => prepared[c] = NotPrepared
         /\ result[c].val = "mkDir gong-calls" => OpsOf(sandbox[c]) = <<>>

\* a call whose file write failed
C4_Witness ==
  \E c \in Calls :
    /\ pc[c] = "failed"
    /\ result[c] = [kind |-> "error", val |-> "writeFiles"]
    /\ Len(OpsOf(sandbox[c])) >= 1

\* C5: a call has a summary only if the model's output conformed to the
\* schema; a nonconforming output leaves the call failed with the schema
\* validation error, and is never dispatched.
C5_OnlyValidatedOutput ==
  \A c \in Calls :
    /\ result[c].kind = "summary" => modelOutput[c] = "conforming" /\ result[c].val = "conforming"
    /\ modelOutput[c] = "nonconforming" =>
         pc[c] = "failed" /\ result[c] = [kind |-> "error", val |-> "schema validation"]
    /\ pc[c] = "dispatched" => result[c] = [kind |-> "summary", val |-> "conforming"]

\* one call ended on a nonconforming output while another was dispatched
C5_Witness ==
  \E c, d \in Calls :
    /\ modelOutput[c] = "nonconforming" /\ pc[c] = "failed"
    /\ pc[d] = "dispatched"

C7_FileTreeMatchesFiles ==
  \A c \in Calls : Composed(c) =>
    LET tree == FileTreeSection(prepared[c].instructions)
        writes == OpsOfKind(sandbox[c], "writeFiles")
    IN IF files[c] = <<>>
       THEN tree = << <<>> >> /\ writes = {}
       ELSE /\ Len(tree) = Len(files[c])
            /\ \A i \in DOMAIN files[c] : tree[i] = <<files[c][i].path>>
            /\ Cardinality(writes) = 1
            /\ \A i \in writes : OpsOf(sandbox[c])[i].arg = files[c]

\* a composed call with three files (transcript, metadata, CRM record), while
\* another composed call has none
C7_Witness ==
  \E c, d \in Calls :
    /\ Composed(c) /\ Len(files[c]) = 3
    /\ Composed(d) /\ files[d] = <<>>

\* the steps of prepareCall for call c, in program order, given its files
StepOrder(c) ==
  <<"Sandbox.create", "mkDir gong-calls">>
  \o (IF config.salesforceEnabled THEN <<"mkDir salesforce">> ELSE <<>>)
  \o <<"generateFilesForSandbox">>
  \o (IF GenerateFilesForSandbox(config, inbox[c]) # <<>> THEN <<"writeFiles">> ELSE <<>>)
  \o <<"generateFileTree", "instructions", "createAgentTools">>

\* the remote operations prepareCall issues on the session, in program order
RemoteOrder(c) ==
  <<[by |-> c, op |-> "mkDir", arg |-> <<"gong-calls">>]>>
  \o (IF config.salesforceEnabled
      THEN <<[by |-> c, op |-> "mkDir", arg |-> <<"salesforce">>]>> ELSE <<>>)
  \o (IF GenerateFilesForSandbox(config, inbox[c]) # <<>>
      THEN <<[by |-> c, op |-> "writeFiles", arg |-> GenerateFilesForSandbox(config, inbox[c])]>>
      ELSE <<>>)

\* C8: the steps a call has taken are, in order, an initial part of: create
\* the session, mkDir gong-calls, (Salesforce enabled) mkDir salesforce,
\* generate the files, (files non-empty) write them, file tree, instructions,
\* tools; then only command executions and the end of the tool loop.  The
\* operations its session has received follow the same order, and a command
\* executes on it only after all of these, the file write included.
C8_StepOrder ==
  \A c \in Calls :
    LET order == StepOrder(c)
        remote == RemoteOrder(c)
    IN /\ \A i \in DOMAIN log[c] :
            IF i <= Len(order)
            THEN log[c][i].step = order[i]
            ELSE \/ log[c][i].step = "executeCommand"
                 \/ i = Len(log[c]) /\ log[c][i].step \in {"generate", "schema validation"}
       /\ sandbox[c] # 0 =>
            /\ \A i \in DOMAIN OpsOf(sandbox[c]) :
                 IF i <= Len(remote)
                 THEN OpsOf(sandbox[c])[i] = remote[i]
                 ELSE OpsOf(sandbox[c])[i].op = "exec"
            /\ pc[c] \in {"loop", "returned", "dispatched"} =>
                 Len(OpsOf(sandbox[c])) >= Len(remote)

\* with Salesforce enabled, a call with three files has run a command in the
\* tool loop
C8_Witness ==
  \E c \in Calls :
    /\ config.salesforceEnabled
    /\ Len(files[c]) = 3
    /\ pc[c] = "loop"
    /\ OpsOfKind(sandbox[c], "exec") # {}

\* C10: every session has one creating call and receives operations from
\* that call only; the calls' sessions are pairwise distinct; and the tools a
\* call hands to the tool loop are bound to the session it created.
C10_SessionIsolation ==
  /\ \A s \in DOMAIN sessions : \A i \in DOMAIN OpsOf(s) : OpsOf(s)[i].by = sessions[s].owner
  /\ \A c \in Calls :
       /\ sandbox[c] # 0 => sandbox[c] \in DOMAIN sessions /\ sessions[sandbox[c]].owner = c
       /\ SessionsOf(c) = (IF sandbox[c] = 0 THEN {} ELSE {sandbox[c]})
       /\ Composed(c) => prepared[c].tools = sandbox[c] /\ sandbox[c] # 0
  /\ \A c, d \in Calls : c # d /\ sandbox[c] # 0 => sandbox[c] # sandbox[d]

\* two calls interleaved: the later call created its session first, and both
\* sessions have had files written and a command run
C10_Witness ==
  \E c, d \in Calls :
    /\ c < d
    /\ sandbox[d] # 0 /\ sandbox[c] > sandbox[d]
    /\ OpsOfKind(sandbox[c], "exec") # {} /\ OpsOfKind(sandbox[d], "exec") # {}
    /\ OpsOfKind(sandbox[c], "writeFiles") # {} /\ OpsOfKind(sandbox[d], "writeFiles") # {}

====
